---- MODULE Spec2Model ----
(* Dlynq API (src/main.py, src/schemas.py): a multi-tenant CRUD API over a   *)
(* document store.  The store is six collections of documents kept in        *)
(* insertion order; every handler resolves a tenant from the request and     *)
(* issues store calls scoped by it.                                          *)
EXTENDS Integers, Sequences, FiniteSets, TLC

VARIABLES store, last, procs

vars == <<store, last, procs>>

(* ---------------- bounds and input sets ---------------- *)
MaxDocs == 2          \* documents in the whole store (general specification)
MaxEvents == 22       \* events of FocusTenant (analytics specification)
MaxOtherEvents == 1   \* events of the other tenants (analytics specification)
MaxProcs == 2         \* concurrent requests (concurrent specification)

None == "<None>"
Tenants == {"t1", "t2"}
FocusTenant == "t1"
\* X-Tenant-ID header and ?tenant= values: absent, empty, or a tenant
HeaderVals == {None, "", "t1"}
QueryVals == {None, "", "t2"}
Emails == {"a@x.io", "b@x.io"}
Passwords == {"pw1", "pw2"}
Names == {"Ann"}
Slugs == {"jane-doe", "acme"}
UserIds == {"u1", "u2"}
CardIds == {"c1", "c2"}
EventTypeInputs == {"qr_scan", "bogus"}

Collections == {"user", "organization", "reseller", "digitalbusinesscard",
                "contactlead", "analyticsevent"}

(* ---------------- Python / framework helpers ---------------- *)
Truthy(x) == x /= None /\ x /= ""

Or(x, y) == IF Truthy(x) THEN x ELSE y

ObjectId(n) == [oid |-> n]

str(o) == ToString(o.oid)

sha256(p) == "sha256:" \o p

HTTPException(status_code, detail) ==
    [status |-> status_code, body |-> [detail |-> detail]]

Ok(body) == [status |-> 200, body |-> body]

Result(s, resp, calls) == [store |-> s, resp |-> resp, calls |-> calls]

TenantContext(tenant_id) == [ok |-> TRUE, tenant_id |-> tenant_id]

get_tenant_missing(x_tenant_id, tenant) ==
    LET tenant_id == Or(Or(x_tenant_id, tenant), "t1")
    IN  TenantContext(tenant_id)

get_tenant(x_tenant_id, tenant) ==
    LET tenant_id == Or(x_tenant_id, tenant)
    IN  IF ~Truthy(tenant_id)
        THEN [ok |-> FALSE,
              error |-> HTTPException(400,
                  "tenant_id required via X-Tenant-ID header or ?tenant=")]
        ELSE TenantContext(tenant_id)

(* ---------------- document store ---------------- *)
(* A filter is a set of <<field, operator, value>> conditions. *)
Eq(f, v) == <<f, "eq", v>>
Ne(f, v) == <<f, "ne", v>>

Matches(doc, filt) ==
    \A c \in filt :
        IF c[2] = "eq"
        THEN c[1] \in DOMAIN doc /\ doc[c[1]] = c[3]
        ELSE ~(c[1] \in DOMAIN doc /\ doc[c[1]] = c[3])

find(s, coll, filt) == SelectSeq(s[coll], LAMBDA d : Matches(d, filt))

\* first matching document as a sequence of length <= 1 (<<>> is None)
find_one(s, coll, filt) ==
    LET m == find(s, coll, filt)
    IN  IF m = <<>> THEN <<>> ELSE <<m[1]>>

count_documents(s, coll, filt) == Len(find(s, coll, filt))

insert_one(s, coll, doc) ==
    LET oid == ObjectId(Len(s[coll]) + 1)
    IN  [store |-> [s EXCEPT ![coll] = Append(@, doc @@ ("_id" :> oid))],
         inserted_id |-> oid]

create_document(s, coll, data) ==
    LET r == insert_one(s, coll, data)
    IN  [store |-> r.store, id |-> str(r.inserted_id)]

Tail_n(seq, n) ==
    IF Len(seq) <= n THEN seq ELSE SubSeq(seq, Len(seq) - n + 1, Len(seq))

\* the most recent `limit` documents matching the filter, oldest first
get_documents(s, coll, filt, limit) == Tail_n(find(s, coll, filt), limit)

\* c["_id"] = str(c["_id"])
serialize(doc) == [doc EXCEPT !["_id"] = str(@)]

serialize_all(docs) == [i \in 1..Len(docs) |-> serialize(docs[i])]

(* ---------------- schemas (src/schemas.py) ---------------- *)
EmptyDict == <<>>

UserSchema(tenant_id, email, name, password_hash, roles) ==
    [tenant_id |-> tenant_id, email |-> email, name |-> name,
     password_hash |-> password_hash, provider |-> "email", roles |-> roles,
     org_id |-> None, team_ids |-> <<>>, is_active |-> TRUE,
     avatar_url |-> None]

OrganizationSchema(tenant_id, name, slug, reseller_id) ==
    [tenant_id |-> tenant_id, name |-> name, slug |-> slug,
     reseller_id |-> reseller_id, brand |-> EmptyDict]

ResellerSchema(tenant_id, name, slug, domain) ==
    [tenant_id |-> tenant_id, name |-> name, slug |-> slug,
     domain |-> domain, branding |-> EmptyDict]

CardStatuses == {"active", "archived", "draft"}

CardSchema(tenant_id, user_id, org_id, slug, status) ==
    [tenant_id |-> tenant_id, user_id |-> user_id, org_id |-> org_id,
     slug |-> slug, status |-> status, profile |-> EmptyDict,
     contact |-> EmptyDict, social |-> EmptyDict, about |-> None,
     services |-> <<>>, portfolio |-> <<>>, attachments |-> <<>>,
     experience |-> <<>>, testimonials |-> <<>>, custom_sections |-> <<>>,
     design |-> EmptyDict, seo |-> EmptyDict, template_id |-> None]

LeadSchema(tenant_id, source_card_id) ==
    [tenant_id |-> tenant_id, source_card_id |-> source_card_id,
     name |-> None, email |-> None, phone |-> None, company |-> None,
     message |-> None, tags |-> <<>>, status |-> "new"]

EventTypes == {"view", "unique_view", "qr_scan", "click_call", "click_email",
               "click_whatsapp", "click_website", "contact_save",
               "form_submit", "attachment_click", "wallet_open"}

EventSchema(tenant_id, card_id, event_type) ==
    [tenant_id |-> tenant_id, card_id |-> card_id, user_id |-> None,
     org_id |-> None, event_type |-> event_type, metadata |-> EmptyDict]

\* an unhandled pydantic ValidationError inside a handler
InternalServerError == [status |-> 500, body |-> [detail |-> "Internal Server Error"]]

(* ---------------- auth handlers ---------------- *)
signup_filt_mut(tenant_id, email) == {Eq("email", email)}

signup_filt(tenant_id, email) == {Eq("tenant_id", tenant_id), Eq("email", email)}

signup_doc(tenant_id, body) ==
    UserSchema(tenant_id, body.email, body.name, sha256(body.password), <<"user">>)

\* line 93: the existence check
signup_check(s, tenant_id, body) ==
    find_one(s, "user", signup_filt(tenant_id, body.email))

signup_finish_atomic(s, tenant_id, body, existing) ==
    IF find_one(s, "user", signup_filt(tenant_id, body.email)) /= <<>>
    THEN Result(s, HTTPException(400, "User already exists"), 2)
    ELSE LET c == create_document(s, "user", signup_doc(tenant_id, body))
         IN  Result(c.store,
                    Ok([user_id |-> c.id, token |-> "demo-" \o c.id,
                        tenant_id |-> tenant_id]), 2)

\* lines 94-97: decide on what the check saw, then insert
signup_finish(s, tenant_id, body, existing) ==
    IF existing /= <<>>
    THEN Result(s, HTTPException(400, "User already exists"), 1)
    ELSE LET c == create_document(s, "user", signup_doc(tenant_id, body))
         IN  Result(c.store,
                    Ok([user_id |-> c.id, token |-> "demo-" \o c.id,
                        tenant_id |-> tenant_id]), 2)

signup(s, h, q, body) ==
    LET ctx == get_tenant(h, q)
    IN  IF ~ctx.ok THEN Result(s, ctx.error, 0)
        ELSE signup_finish(s, ctx.tenant_id, body,
                           signup_check(s, ctx.tenant_id, body))

login_leaky(s, h, q, body) ==
    LET ctx == get_tenant(h, q)
    IN  IF ~ctx.ok THEN Result(s, ctx.error, 0)
        ELSE LET user == find_one(s, "user",
                     {Eq("tenant_id", ctx.tenant_id), Eq("email", body.email)})
             IN  IF user = <<>>
                 THEN Result(s, HTTPException(404, "User not found"), 1)
                 ELSE IF user[1].password_hash /= sha256(body.password)
                 THEN Result(s, HTTPException(401, "Invalid credentials"), 1)
                 ELSE Result(s, Ok([token |-> "demo-" \o str(user[1]["_id"]),
                                    user |-> [email |-> user[1].email,
                                              name |-> user[1].name]]), 1)

login(s, h, q, body) ==
    LET ctx == get_tenant(h, q)
    IN  IF ~ctx.ok THEN Result(s, ctx.error, 0)
        ELSE LET user == find_one(s, "user",
                     {Eq("tenant_id", ctx.tenant_id), Eq("email", body.email)})
             IN  IF user = <<>>
                 THEN Result(s, HTTPException(401, "Invalid credentials"), 1)
                 ELSE IF user[1].password_hash /= sha256(body.password)
                 THEN Result(s, HTTPException(401, "Invalid credentials"), 1)
                 ELSE Result(s, Ok([token |-> "demo-" \o str(user[1]["_id"]),
                                    user |-> [email |-> user[1].email,
                                              name |-> user[1].name]]), 1)

(* ---------------- tenant resources ---------------- *)
create_org_data_mut(tenant_id, body) ==
    OrganizationSchema(body.slug, body.name, body.slug, body.reseller_id)

create_org_data(tenant_id, body) ==
    OrganizationSchema(tenant_id, body.name, body.slug, body.reseller_id)

create_org_checked(s, h, q, body) ==
    LET ctx == get_tenant(h, q)
    IN  IF ~ctx.ok THEN Result(s, ctx.error, 0)
        ELSE IF find_one(s, "organization",
                    {Eq("tenant_id", ctx.tenant_id), Eq("slug", body.slug)}) /= <<>>
        THEN Result(s, HTTPException(400, "Slug already in use"), 1)
        ELSE LET c == create_document(s, "organization",
                                      create_org_data(ctx.tenant_id, body))
             IN  Result(c.store, Ok([org_id |-> c.id]), 2)

create_org(s, h, q, body) ==
    LET ctx == get_tenant(h, q)
    IN  IF ~ctx.ok THEN Result(s, ctx.error, 0)
        ELSE LET c == create_document(s, "organization",
                                      create_org_data(ctx.tenant_id, body))
             IN  Result(c.store, Ok([org_id |-> c.id]), 1)

create_reseller(s, h, q, body) ==
    LET ctx == get_tenant(h, q)
    IN  IF ~ctx.ok THEN Result(s, ctx.error, 0)
        ELSE LET data == ResellerSchema(ctx.tenant_id, body.name, body.slug,
                                        body.domain)
                 c == create_document(s, "reseller", data)
             IN  Result(c.store, Ok([reseller_id |-> c.id]), 1)

(* ---------------- cards ---------------- *)
create_card_filt_mut(tenant_id, body) ==
    {Eq("tenant_id", tenant_id), Eq("slug", body.slug), Eq("user_id", body.user_id)}

create_card_filt(tenant_id, body) ==
    {Eq("tenant_id", tenant_id), Eq("slug", body.slug)}

\* line 147: the existence check
create_card_check(s, tenant_id, body) ==
    find_one(s, "digitalbusinesscard", create_card_filt(tenant_id, body))

\* lines 147-162: decide on what the check saw, then insert
create_card_finish(s, tenant_id, body, existing) ==
    IF existing /= <<>>
    THEN Result(s, HTTPException(400, "Slug already in use"), 1)
    ELSE LET data == CardSchema(tenant_id, body.user_id, body.org_id,
                                body.slug, "active")
             c == create_document(s, "digitalbusinesscard", data)
         IN  Result(c.store, Ok([card_id |-> c.id]), 2)

create_card(s, h, q, body) ==
    LET ctx == get_tenant(h, q)
    IN  IF ~ctx.ok THEN Result(s, ctx.error, 0)
        ELSE create_card_finish(s, ctx.tenant_id, body,
                                create_card_check(s, ctx.tenant_id, body))

list_cards_filt_mut(tenant_id, user_id) ==
    IF Truthy(user_id) THEN {Eq("user_id", user_id)}
    ELSE {Eq("tenant_id", tenant_id)}

list_cards_filt(tenant_id, user_id) ==
    {Eq("tenant_id", tenant_id)}
        \cup (IF Truthy(user_id) THEN {Eq("user_id", user_id)} ELSE {})

CardsLimit == 100

list_cards(s, h, q, user_id) ==
    LET ctx == get_tenant(h, q)
    IN  IF ~ctx.ok THEN Result(s, ctx.error, 0)
        ELSE LET cards == get_documents(s, "digitalbusinesscard",
                              list_cards_filt(ctx.tenant_id, user_id), CardsLimit)
             IN  Result(s, Ok([items |-> serialize_all(cards)]), 1)

get_public_card_filt_mut(tenant_id, slug) ==
    {Eq("tenant_id", tenant_id), Eq("slug", slug)}

get_public_card_filt(tenant_id, slug) ==
    {Eq("tenant_id", tenant_id), Eq("slug", slug), Ne("status", "archived")}

get_public_card(s, h, q, slug) ==
    LET ctx == get_tenant(h, q)
    IN  IF ~ctx.ok THEN Result(s, ctx.error, 0)
        ELSE LET card == find_one(s, "digitalbusinesscard",
                                  get_public_card_filt(ctx.tenant_id, slug))
             IN  IF card = <<>>
                 THEN Result(s, HTTPException(404, "Card not found"), 1)
                 ELSE Result(s, Ok([card |-> serialize(card[1])]), 1)

(* ---------------- leads ---------------- *)
create_lead(s, h, q, body) ==
    LET ctx == get_tenant(h, q)
    IN  IF ~ctx.ok THEN Result(s, ctx.error, 0)
        ELSE LET data == LeadSchema(ctx.tenant_id, body.source_card_id)
                 c == create_document(s, "contactlead", data)
             IN  Result(c.store, Ok([lead_id |-> c.id]), 1)

list_leads_filt(tenant_id, card_id) ==
    {Eq("tenant_id", tenant_id)}
        \cup (IF Truthy(card_id) THEN {Eq("source_card_id", card_id)} ELSE {})

LeadsLimit == 200

list_leads(s, h, q, card_id) ==
    LET ctx == get_tenant(h, q)
    IN  IF ~ctx.ok THEN Result(s, ctx.error, 0)
        ELSE LET leads == get_documents(s, "contactlead",
                              list_leads_filt(ctx.tenant_id, card_id), LeadsLimit)
             IN  Result(s, Ok([items |-> serialize_all(leads)]), 1)

(* ---------------- analytics ---------------- *)
track_event(s, h, q, body) ==
    LET ctx == get_tenant(h, q)
    IN  IF ~ctx.ok THEN Result(s, ctx.error, 0)
        ELSE IF body.event_type \notin EventTypes
        THEN Result(s, InternalServerError, 0)
        ELSE LET data == EventSchema(ctx.tenant_id, body.card_id, body.event_type)
                 c == create_document(s, "analyticsevent", data)
             IN  Result(c.store, Ok([event_id |-> c.id]), 1)

RecentLimit == 20

total_events_mut(s, tenant_id) ==
    count_documents(s, "contactlead", {Eq("tenant_id", tenant_id)})

total_events(s, tenant_id) ==
    count_documents(s, "analyticsevent", {Eq("tenant_id", tenant_id)})

analytics_summary(s, h, q) ==
    LET ctx == get_tenant(h, q)
    IN  IF ~ctx.ok THEN Result(s, ctx.error, 0)
        ELSE LET filt == {Eq("tenant_id", ctx.tenant_id)}
                 total_cards == count_documents(s, "digitalbusinesscard", filt)
                 total_leads == count_documents(s, "contactlead", filt)
                 recent_events == get_documents(s, "analyticsevent", filt,
                                                RecentLimit)
             IN  Result(s, Ok([cards |-> total_cards, leads |-> total_leads,
                               events |-> total_events(s, ctx.tenant_id),
                               recent_events |-> serialize_all(recent_events)]), 4)

(* ---------------- state machine: one request at a time ---------------- *)
Idle == [op |-> "idle"]

EmptyStore == [c \in Collections |-> <<>>]

\* documents the store may hold before the first request
SeedArchived ==
    [EmptyStore EXCEPT !["digitalbusinesscard"] =
        <<CardSchema("t1", "u1", None, "jane-doe", "archived")
            @@ ("_id" :> ObjectId(1))>>]

SeedStores == {EmptyStore, SeedArchived}

TotalDocs(s) ==
    Len(s["user"]) + Len(s["organization"]) + Len(s["reseller"])
        + Len(s["digitalbusinesscard"]) + Len(s["contactlead"])
        + Len(s["analyticsevent"])

NoProcs == [p \in 1..MaxProcs |-> [pc |-> "idle"]]

Init ==
    /\ store \in SeedStores
    /\ last = Idle
    /\ procs = NoProcs

\* the framework runs handler `r` for request (op, h, q, args) and keeps the
\* response until it is delivered; `before` remembers the store the request
\* found
Respond(op, h, q, args, r) ==
    /\ last.op = "idle"
    /\ store' = r.store
    /\ last' = [op |-> op, header |-> h, query |-> q, args |-> args,
                before |-> store, status |-> r.resp.status, body |-> r.resp.body,
                calls |-> r.calls]
    /\ UNCHANGED procs

Handle(op, h, q, args, r) ==
    /\ last.op = "idle"
    /\ TotalDocs(r.store) <= MaxDocs
    /\ Respond(op, h, q, args, r)

Signup ==
    \E h \in HeaderVals, q \in QueryVals, e \in Emails, n \in Names, p \in Passwords :
        LET body == [email |-> e, name |-> n, password |-> p]
        IN  Handle("signup", h, q, body, signup(store, h, q, body))

Login ==
    \E h \in HeaderVals, q \in QueryVals, e \in Emails, p \in Passwords :
        LET body == [email |-> e, password |-> p]
        IN  Handle("login", h, q, body, login(store, h, q, body))

CreateOrg ==
    \E h \in HeaderVals, q \in QueryVals, sl \in {"acme"} :
        LET body == [name |-> "Org", slug |-> sl, reseller_id |-> None]
        IN  Handle("create_org", h, q, body, create_org(store, h, q, body))

CreateReseller ==
    \E h \in HeaderVals, q \in QueryVals :
        LET body == [name |-> "Res", slug |-> "res", domain |-> None]
        IN  Handle("create_reseller", h, q, body, create_reseller(store, h, q, body))

CreateCard ==
    \E h \in HeaderVals, q \in QueryVals, u \in UserIds, sl \in Slugs :
        LET body == [user_id |-> u, org_id |-> None, slug |-> sl]
        IN  Handle("create_card", h, q, body, create_card(store, h, q, body))

ListCards ==
    \E h \in HeaderVals, q \in QueryVals, u \in {None} \cup UserIds :
        Handle("list_cards", h, q, [user_id |-> u], list_cards(store, h, q, u))

GetPublicCard ==
    \E h \in HeaderVals, q \in QueryVals, sl \in Slugs :
        Handle("get_public_card", h, q, [slug |-> sl],
               get_public_card(store, h, q, sl))

CreateLead ==
    \E h \in HeaderVals, q \in QueryVals, c \in CardIds :
        LET body == [source_card_id |-> c]
        IN  Handle("create_lead", h, q, body, create_lead(store, h, q, body))

ListLeads ==
    \E h \in HeaderVals, q \in QueryVals, c \in {None} \cup CardIds :
        Handle("list_leads", h, q, [card_id |-> c], list_leads(store, h, q, c))

TrackEvent ==
    \E h \in HeaderVals, q \in QueryVals, ty \in EventTypeInputs :
        LET body == [card_id |-> None, event_type |-> ty]
        IN  Handle("track_event", h, q, body, track_event(store, h, q, body))

AnalyticsSummary ==
    \E h \in HeaderVals, q \in QueryVals :
        Handle("analytics_summary", h, q, [none |-> None],
               analytics_summary(store, h, q))

\* the response leaves the server; handlers keep no per-request state
Deliver ==
    /\ last.op /= "idle"
    /\ last' = Idle
    /\ UNCHANGED <<store, procs>>

Next ==
    \/ Signup
    \/ Login
    \/ CreateOrg
    \/ CreateReseller
    \/ CreateCard
    \/ ListCards
    \/ GetPublicCard
    \/ CreateLead
    \/ ListLeads
    \/ TrackEvent
    \/ AnalyticsSummary
    \/ Deliver

Spec == Init /\ [][Next]_vars

(* ---------------- analytics specification: long event histories -------- *)
EventsOf(s, t) == find(s, "analyticsevent", {Eq("tenant_id", t)})

EventsWithin(s) ==
    /\ Len(EventsOf(s, FocusTenant)) <= MaxEvents
    /\ Len(s["analyticsevent"]) - Len(EventsOf(s, FocusTenant)) <= MaxOtherEvents

TrackEventA ==
    \E h \in HeaderVals, q \in QueryVals, ty \in EventTypeInputs :
        LET body == [card_id |-> None, event_type |-> ty]
            r == track_event(store, h, q, body)
        IN  /\ last.op = "idle"
            /\ EventsWithin(r.store)
            /\ Respond("track_event", h, q, body, r)

AnalyticsSummaryA ==
    \E h \in HeaderVals, q \in QueryVals :
        Respond("analytics_summary", h, q, [none |-> None],
                analytics_summary(store, h, q))

NextAnalytics ==
    \/ TrackEventA
    \/ AnalyticsSummaryA
    \/ Deliver

SpecAnalytics == Init /\ [][NextAnalytics]_vars

(* ---------------- concurrent specification: check and insert are ------- *)
(* ---------------- separate store steps of signup and create_card ------- *)
Procs == 1..MaxProcs

SignupCheck(p) ==
    /\ procs[p].pc = "idle"
    /\ \E h \in HeaderVals, q \in QueryVals, e \in Emails :
          LET ctx == get_tenant(h, q)
              body == [email |-> e, name |-> "Ann", password |-> "pw1"]
          IN  /\ ctx.ok
              /\ procs' = [procs EXCEPT ![p] =
                    [pc |-> "checked", op |-> "signup",
                     tenant_id |-> ctx.tenant_id, body |-> body,
                     existing |-> signup_check(store, ctx.tenant_id, body)]]
    /\ UNCHANGED <<store, last>>

SignupInsert(p) ==
    /\ procs[p].pc = "checked"
    /\ procs[p].op = "signup"
    /\ LET r == signup_finish(store, procs[p].tenant_id, procs[p].body,
                              procs[p].existing)
       IN  /\ store' = r.store
           /\ procs' = [procs EXCEPT ![p] =
                 [pc |-> "done", op |-> "signup",
                  tenant_id |-> procs[p].tenant_id, body |-> procs[p].body,
                  existing |-> procs[p].existing, resp |-> r.resp]]
    /\ UNCHANGED last

CardCheck(p) ==
    /\ procs[p].pc = "idle"
    /\ \E h \in HeaderVals, q \in QueryVals, sl \in Slugs :
          LET ctx == get_tenant(h, q)
              body == [user_id |-> "u1", org_id |-> None, slug |-> sl]
          IN  /\ ctx.ok
              /\ procs' = [procs EXCEPT ![p] =
                    [pc |-> "checked", op |-> "create_card",
                     tenant_id |-> ctx.tenant_id, body |-> body,
                     existing |-> create_card_check(store, ctx.tenant_id, body)]]
    /\ UNCHANGED <<store, last>>

CardInsert(p) ==
    /\ procs[p].pc = "checked"
    /\ procs[p].op = "create_card"
    /\ LET r == create_card_finish(store, procs[p].tenant_id, procs[p].body,
                                   procs[p].existing)
       IN  /\ store' = r.store
           /\ procs' = [procs EXCEPT ![p] =
                 [pc |-> "done", op |-> "create_card",
                  tenant_id |-> procs[p].tenant_id, body |-> procs[p].body,
                  existing |-> procs[p].existing, resp |-> r.resp]]
    /\ UNCHANGED last

NextConc ==
    \/ \E p \in Procs : SignupCheck(p)
    \/ \E p \in Procs : SignupInsert(p)
    \/ \E p \in Procs : CardCheck(p)
    \/ \E p \in Procs : CardInsert(p)

SpecConc == Init /\ [][NextConc]_vars

TypeOK == last.op \in {"idle", "signup", "login", "create_org", "create_reseller",
    "create_card", "list_cards", "get_public_card", "create_lead", "list_leads",
    "track_event", "analytics_summary"}

(* ======================= properties ======================= *)
HasTenant(r) == r.header \notin {None, ""} \/ r.query \notin {None, ""}

\* header takes precedence over the query parameter
CallerTenant(r) == IF r.header \notin {None, ""} THEN r.header ELSE r.query

Answered(op) == last.op = op /\ HasTenant(last)

SeqRange(seq) == {seq[i] : i \in 1..Len(seq)}

DocsOfTenant(seq, t) == SelectSeq(seq, LAMBDA d : d.tenant_id = t)

IsPrefix(a, b) == Len(a) <= Len(b) /\ SubSeq(b, 1, Len(a)) = a

MissingTenantBody ==
    [detail |-> "tenant_id required via X-Tenant-ID header or ?tenant="]

\* C1: every document a listing (list_cards, list_leads, recent_events of
\* analytics_summary) returns for a request resolved to tenant t has
\* tenant_id = t, with or without the user_id / card_id filter.
C1_TenantIsolatedListing ==
    /\ (Answered("list_cards") \/ Answered("list_leads")) =>
          /\ last.status = 200
          /\ \A d \in SeqRange(last.body.items) : d.tenant_id = CallerTenant(last)
    /\ Answered("analytics_summary") =>
          /\ last.status = 200
          /\ \A d \in SeqRange(last.body.recent_events) :
                d.tenant_id = CallerTenant(last)

C1_Witness ==
    /\ Answered("list_cards")
    /\ last.args.user_id /= None
    /\ last.body.items /= <<>>
    /\ \E d \in SeqRange(store["digitalbusinesscard"]) :
          d.tenant_id /= CallerTenant(last) /\ d.user_id = last.args.user_id

\* C2: a request with neither a non-empty X-Tenant-ID header nor a non-empty
\* tenant query parameter is answered by every endpoint with the same HTTP 400
\* body, after no store call, and leaves the store unchanged.
C2_MissingTenantRejected ==
    (last.op /= "idle" /\ ~HasTenant(last)) =>
        /\ last.status = 400
        /\ last.body = MissingTenantBody
        /\ last.calls = 0
        /\ store = last.before

C2_Witness ==
    /\ last.op = "create_card"
    /\ ~HasTenant(last)
    /\ last.header = ""
    /\ last.status = 400
    /\ TotalDocs(store) > 0

UserExists(s, t, e) ==
    \E u \in SeqRange(s["user"]) : u.tenant_id = t /\ u.email = e

OnlyAppended(s, s2, coll) ==
    /\ \A c \in Collections \ {coll} : s2[c] = s[c]
    /\ Len(s2[coll]) = Len(s[coll]) + 1
    /\ IsPrefix(s[coll], s2[coll])

\* C3: run one at a time, signup under tenant t with an email a user of t
\* already has fails with 400 'User already exists' and inserts nothing,
\* whatever the name and password; with an email no user of t has (also when
\* another tenant has it) it succeeds and inserts one user stamped with t.
C3_SignupUniquePerTenant ==
    Answered("signup") =>
        LET t == CallerTenant(last)
            e == last.args.email
        IN  IF UserExists(last.before, t, e)
            THEN /\ last.status = 400
                 /\ last.body = [detail |-> "User already exists"]
                 /\ store = last.before
            ELSE /\ last.status = 200
                 /\ last.body.tenant_id = t
                 /\ OnlyAppended(last.before, store, "user")
                 /\ LET u == store["user"][Len(store["user"])]
                    IN  u.tenant_id = t /\ u.email = e

C3_Witness ==
    /\ Answered("signup")
    /\ last.status = 400
    /\ \E u \in SeqRange(store["user"]) :
          /\ u.tenant_id = CallerTenant(last)
          /\ u.email = last.args.email
          /\ u.password_hash /= sha256(last.args.password)
    /\ \E u \in SeqRange(store["user"]) :
          u.tenant_id /= CallerTenant(last) /\ u.email = last.args.email

SlugExists(s, t, sl) ==
    \E c \in SeqRange(s["digitalbusinesscard"]) : c.tenant_id = t /\ c.slug = sl

SlugsUnique(s) ==
    \A i, j \in 1..Len(s["digitalbusinesscard"]) :
        LET a == s["digitalbusinesscard"][i]
            b == s["digitalbusinesscard"][j]
        IN  (a.tenant_id = b.tenant_id /\ a.slug = b.slug) => i = j

\* C4: run one at a time, create_card under tenant t with a slug a card of t
\* already has fails with 400 'Slug already in use' and inserts nothing; with a
\* slug no card of t has (also when another tenant has it) it succeeds; hence
\* no two cards of one tenant ever share a slug.
C4_SlugUniquePerTenant ==
    /\ SlugsUnique(store)
    /\ Answered("create_card") =>
          LET t == CallerTenant(last)
              sl == last.args.slug
          IN  IF SlugExists(last.before, t, sl)
              THEN /\ last.status = 400
                   /\ last.body = [detail |-> "Slug already in use"]
                   /\ store = last.before
              ELSE /\ last.status = 200
                   /\ OnlyAppended(last.before, store, "digitalbusinesscard")
                   /\ LET c == store["digitalbusinesscard"]
                                   [Len(store["digitalbusinesscard"])]
                      IN  c.tenant_id = t /\ c.slug = sl

C4_Witness ==
    /\ Answered("create_card")
    /\ last.status = 400
    /\ \E a, b \in SeqRange(store["digitalbusinesscard"]) :
          /\ a.slug = last.args.slug /\ b.slug = last.args.slug
          /\ a.tenant_id = CallerTenant(last)
          /\ b.tenant_id /= CallerTenant(last)
          /\ a.user_id /= last.args.user_id

\* C6: get_public_card(slug) under tenant t returns a card exactly when a card
\* of t with that slug and a status other than archived exists, the card
\* returned is such a card, and otherwise the answer is 404.
C6_PublicCardNeverArchived ==
    Answered("get_public_card") =>
        LET t == CallerTenant(last)
            sl == last.args.slug
            visible == {c \in SeqRange(store["digitalbusinesscard"]) :
                          c.tenant_id = t /\ c.slug = sl /\ c.status /= "archived"}
        IN  IF visible /= {}
            THEN /\ last.status = 200
                 /\ last.body.card.status /= "archived"
                 /\ last.body.card.tenant_id = t
                 /\ last.body.card.slug = sl
            ELSE /\ last.status = 404
                 /\ last.body = [detail |-> "Card not found"]

C6_Witness ==
    /\ Answered("get_public_card")
    /\ last.status = 404
    /\ \E c \in SeqRange(store["digitalbusinesscard"]) :
          /\ c.tenant_id = CallerTenant(last)
          /\ c.slug = last.args.slug
          /\ c.status = "archived"
    /\ \E c \in SeqRange(store["digitalbusinesscard"]) :
          c.tenant_id /= CallerTenant(last) /\ c.slug = last.args.slug

CredentialsOk(s, t, e, pw) ==
    \E u \in SeqRange(s["user"]) :
        u.tenant_id = t /\ u.email = e /\ u.password_hash = sha256(pw)

\* C7: login under tenant t with a known email and a wrong password, and login
\* with an email no user of t has, get the identical answer (401 'Invalid
\* credentials'), and neither changes the store.
C7_LoginFailuresIndistinguishable ==
    (Answered("login") /\
     ~CredentialsOk(last.before, CallerTenant(last), last.args.email,
                    last.args.password)) =>
        /\ last.status = 401
        /\ last.body = [detail |-> "Invalid credentials"]
        /\ store = last.before

C7_Witness ==
    /\ Answered("login")
    /\ last.status = 401
    /\ UserExists(store, CallerTenant(last), last.args.email)
    /\ \E e \in Emails : ~UserExists(store, CallerTenant(last), e)

NewDocs(s, s2, c) == {s2[c][i] : i \in (Len(s[c]) + 1)..Len(s2[c])}

TenantIdsIn(s) ==
    UNION {{d.tenant_id : d \in SeqRange(s[c])} : c \in Collections}

\* C9: a request resolved to tenant t leaves the documents of every other
\* tenant in every collection as they were, and every document it inserts
\* carries tenant_id = t.
C9_NoCrossTenantWrite ==
    (last.op /= "idle" /\ HasTenant(last)) =>
        LET t == CallerTenant(last)
        IN  \A c \in Collections :
              /\ IsPrefix(last.before[c], store[c])
              /\ \A d \in NewDocs(last.before, store, c) : d.tenant_id = t
              /\ \A t2 \in (TenantIdsIn(last.before) \cup TenantIdsIn(store)) \ {t} :
                    DocsOfTenant(store[c], t2) = DocsOfTenant(last.before[c], t2)

C9_Witness ==
    /\ Answered("create_org")
    /\ last.status = 200
    /\ \E d \in SeqRange(store["organization"]) : d.tenant_id /= CallerTenant(last)

\* C10 as stated: every request that is handled performs exactly one store call.
C10_ExactlyOneStoreCall ==
    (last.op /= "idle" /\ last.status = 200) => last.calls = 1

\* C10 as amended: with the tenant resolved, login, create_org,
\* create_reseller, list_cards, get_public_card, create_lead and list_leads
\* perform exactly one store call, and so does a successful track_event;
\* signup and create_card perform two when they succeed (existence find, then
\* insert) and one when they report the conflict; analytics_summary performs
\* four (three counts and one find).
C10_StoreCallsPerHandler ==
    (last.op /= "idle" /\ HasTenant(last)) =>
        CASE last.op \in {"signup", "create_card"} ->
                last.calls = (IF last.status = 200 THEN 2 ELSE 1)
          [] last.op = "analytics_summary" -> last.calls = 4
          [] last.op = "track_event" ->
                last.calls = (IF last.status = 200 THEN 1 ELSE 0)
          [] OTHER -> last.calls = 1

C10_Witness ==
    /\ Answered("signup")
    /\ last.status = 200
    /\ last.calls = 2
    /\ Len(store["user"]) = 2

KeyOf(pr) == IF pr.op = "signup" THEN "email" ELSE "slug"

CollOf(pr) == IF pr.op = "signup" THEN "user" ELSE "digitalbusinesscard"

IdOf(pr) == IF pr.op = "signup" THEN pr.resp.body.user_id ELSE pr.resp.body.card_id

SharesKey(a, b, key) == a.tenant_id = b.tenant_id /\ a[key] = b[key]

Duplicated(s, coll, key) ==
    \E i, j \in 1..Len(s[coll]) : i /= j /\ SharesKey(s[coll][i], s[coll][j], key)

\* C5: with the existence check and the insert as separate store steps, the
\* outcome of signup and create_card rests on the check alone: a request whose
\* check found nothing inserts its document and succeeds whatever has been
\* inserted since, so two concurrent creates with the same value in one tenant
\* both insert.
C5_InsertFollowsStaleCheck ==
    \A p \in Procs :
        procs[p].pc = "done" =>
            LET pr == procs[p]
            IN  /\ (pr.resp.status = 200) <=> (pr.existing = <<>>)
                /\ pr.resp.status = 200 =>
                      \E d \in SeqRange(store[CollOf(pr)]) :
                          /\ str(d["_id"]) = IdOf(pr)
                          /\ d.tenant_id = pr.tenant_id
                          /\ d[KeyOf(pr)] = pr.body[KeyOf(pr)]

C5_Witness ==
    /\ Duplicated(store, "user", "email")
    /\ \A p \in Procs : procs[p].pc = "done" => procs[p].resp.status = 200
    /\ \E p, p2 \in Procs :
          /\ p /= p2
          /\ procs[p].pc = "done" /\ procs[p2].pc = "done"
          /\ procs[p].op = "signup" /\ procs[p2].op = "signup"
          /\ procs[p].tenant_id = procs[p2].tenant_id
          /\ procs[p].body.email = procs[p2].body.email

Min(a, b) == IF a <= b THEN a ELSE b

\* C8: once track_event has succeeded under tenant t, analytics_summary under
\* t reports events >= 1 and lists the tracked event in recent_events; in
\* general it reports the number n of events of t and, as recent_events, the
\* most recent min(20, n) of them.
C8_TrackedEventIsReported ==
    /\ (Answered("track_event") /\ last.status = 200) =>
          LET r == analytics_summary(store, last.header, last.query).resp
          IN  /\ r.status = 200
              /\ r.body.events >= 1
              /\ \E e \in SeqRange(r.body.recent_events) :
                    /\ e["_id"] = last.body.event_id
                    /\ e.tenant_id = CallerTenant(last)
                    /\ e.event_type = last.args.event_type
    /\ Answered("analytics_summary") =>
          LET mine == DocsOfTenant(store["analyticsevent"], CallerTenant(last))
              n == Len(mine)
              k == Min(20, n)
          IN  /\ last.body.events = n
              /\ Len(last.body.recent_events) = k
              /\ \A i \in 1..k :
                    last.body.recent_events[i]["_id"] = str(mine[n - k + i]["_id"])

C8_Witness ==
    /\ Answered("analytics_summary")
    /\ last.body.events > 20
    /\ Len(last.body.recent_events) = 20
    /\ Len(store["analyticsevent"]) > last.body.events

====
